---- MODULE Spec2Model ----
(***************************************************************************)
(* Model of the code-churn reporting scripts: src/code_churn_v2.py (the    *)
(* "v2" variant, with the merge-aware line counter and the sorted report)  *)
(* and src/scripts/code_churn.py (the "v1" variant).                       *)
(*                                                                         *)
(* Text is a sequence of one-character strings, so that splitlines, strip, *)
(* split and int are computed the way the Python code computes them.       *)
(***************************************************************************)
EXTENDS Integers, Sequences, FiniteSets, TLC

(***************************************************************************)
(* Characters and Python's string primitives                               *)
(***************************************************************************)
QUOTE == "'"
COMMA == ","
TAB == "\t"
NL == "\n"
SPACE == " "

\* Code point of a character (Python compares str by code point).
Ord(c) ==
  CASE c = TAB -> 9
    [] c = NL -> 10
    [] c = SPACE -> 32
    [] c = QUOTE -> 39
    [] c = "+" -> 43
    [] c = COMMA -> 44
    [] c = "-" -> 45
    [] c = "0" -> 48
    [] c = "1" -> 49
    [] c = "2" -> 50
    [] c = "3" -> 51
    [] c = "4" -> 52
    [] c = "5" -> 53
    [] c = "6" -> 54
    [] c = "7" -> 55
    [] c = "8" -> 56
    [] c = "9" -> 57
    [] c = "a" -> 97
    [] c = "b" -> 98
    [] c = "c" -> 99
    [] c = "f" -> 102
    [] c = "p" -> 112
    [] c = "q" -> 113
    [] c = "x" -> 120
    [] c = "y" -> 121

IsDigit(c) == c \in {"0", "1", "2", "3", "4", "5", "6", "7", "8", "9"}

DigitVal(c) == Ord(c) - 48

IsSpace(c) == c \in {SPACE, TAB, NL}

\* s < t for Python str: lexicographic by code point, a proper prefix is less.
RECURSIVE StrLess(_, _)
StrLess(s, t) ==
  IF t = <<>> THEN FALSE
  ELSE IF s = <<>> THEN TRUE
  ELSE IF Head(s) = Head(t) THEN StrLess(Tail(s), Tail(t))
  ELSE Ord(Head(s)) < Ord(Head(t))

\* str.startswith(c) for a one-character prefix.
StartsWith(s, c) == Len(s) > 0 /\ s[1] = c

RECURSIVE LStripChars(_, _)
LStripChars(s, cs) ==
  IF s # <<>> /\ Head(s) \in cs THEN LStripChars(Tail(s), cs) ELSE s

RECURSIVE RStripChars(_, _)
RStripChars(s, cs) ==
  IF s # <<>> /\ s[Len(s)] \in cs THEN RStripChars(SubSeq(s, 1, Len(s) - 1), cs) ELSE s

\* str.strip(chars): removes every leading and trailing character in cs.
StripChars(s, cs) == RStripChars(LStripChars(s, cs), cs)

\* str.strip(): removes leading and trailing whitespace.
Strip(s) == StripChars(s, {SPACE, TAB, NL})

\* Index of the first occurrence of character d in s, 0 when there is none.
RECURSIVE FindFrom(_, _, _)
FindFrom(s, d, i) ==
  IF i > Len(s) THEN 0 ELSE IF s[i] = d THEN i ELSE FindFrom(s, d, i + 1)

\* str.split(d, maxsplit): at most maxsplit cuts, the rest of the string is
\* the last part; maxsplit = -1 is no limit.  Never returns an empty list.
RECURSIVE SplitMax(_, _, _)
SplitMax(s, d, maxsplit) ==
  LET k == FindFrom(s, d, 1)
  IN IF maxsplit = 0 \/ k = 0 THEN <<s>>
     ELSE <<SubSeq(s, 1, k - 1)>>
          \o SplitMax(SubSeq(s, k + 1, Len(s)), d,
                      IF maxsplit < 0 THEN maxsplit ELSE maxsplit - 1)

\* str.split(d)
Split(s, d) == SplitMax(s, d, -1)

\* str.split() without arguments: the maximal runs of non-whitespace.
RECURSIVE SplitWS(_)
SplitWS(s) ==
  LET t == LStripChars(s, {SPACE, TAB, NL})
      RECURSIVE WordEnd(_)
      WordEnd(i) == IF i > Len(t) \/ IsSpace(t[i]) THEN i - 1 ELSE WordEnd(i + 1)
  IN IF t = <<>> THEN <<>>
     ELSE LET e == WordEnd(1)
          IN <<SubSeq(t, 1, e)>> \o SplitWS(SubSeq(t, e + 1, Len(t)))

\* str.splitlines(): lines end at a newline; no empty last line is produced,
\* and the empty text has no lines.
RECURSIVE SplitLines(_)
SplitLines(s) ==
  IF s = <<>> THEN <<>>
  ELSE LET k == FindFrom(s, NL, 1)
       IN IF k = 0 THEN <<s>>
          ELSE <<SubSeq(s, 1, k - 1)>> \o SplitLines(SubSeq(s, k + 1, Len(s)))

\* "\n".join(lines): how the external tool lays its lines out.
RECURSIVE JoinLines(_)
JoinLines(ls) ==
  IF ls = <<>> THEN <<>>
  ELSE IF Len(ls) = 1 THEN ls[1]
  ELSE ls[1] \o <<NL>> \o JoinLines(Tail(ls))

\* Value of a non-empty digit string.
RECURSIVE DigitsValue(_)
DigitsValue(ds) ==
  IF ds = <<>> THEN 0
  ELSE 10 * DigitsValue(SubSeq(ds, 1, Len(ds) - 1)) + DigitVal(ds[Len(ds)])

\* The strings int() accepts: optional surrounding whitespace, an optional
\* sign, then one or more digits.
IntAccepts(value) ==
  LET t == Strip(value)
      u == IF t # <<>> /\ Head(t) \in {"+", "-"} THEN Tail(t) ELSE t
  IN u # <<>> /\ \A i \in 1..Len(u) : IsDigit(u[i])

\* int(value) for a string int() accepts.
IntOf(value) ==
  LET t == Strip(value)
  IN IF Head(t) = "-" THEN 0 - DigitsValue(Tail(t))
     ELSE IF Head(t) = "+" THEN DigitsValue(Tail(t))
     ELSE DigitsValue(t)

\* safe_int: int(value), and 0 when int() raises ValueError.
safe_int(value) == IF IntAccepts(value) THEN IntOf(value) ELSE 0

(***************************************************************************)
(* Bounds and the inputs the environment supplies                          *)
(***************************************************************************)
\* Most lines in a log text the log fetch returns.
MaxLines == 3

\* The header line git prints for the pretty format '%H,%ad,%s'.
Header(hash, date, subject) ==
  <<QUOTE>> \o hash \o <<COMMA>> \o date \o <<COMMA>> \o subject \o <<QUOTE>>

HeaderLines ==
  { Header(<<"a">>, <<"2">>, <<"x">>),
    Header(<<"b">>, <<"1", "0">>, <<"x", COMMA, "y">>),
    <<QUOTE, "c", COMMA, "2", QUOTE>> }

StatLines ==
  { <<"1", TAB, "2", TAB, "f">>,
    <<"-", TAB, "-", TAB, "f">>,
    <<"x", TAB, "1", TAB, "f">>,
    <<"-", "1", TAB, "0", TAB, "f">>,
    <<"1", TAB, "2">>,
    <<>> }

LogLines == HeaderLines \cup StatLines

RECURSIVE SeqsUpTo(_, _)
SeqsUpTo(S, n) ==
  IF n = 0 THEN {<<>>}
  ELSE LET shorter == SeqsUpTo(S, n - 1)
       IN shorter \cup {Append(t, e) : t \in {u \in shorter : Len(u) = n - 1}, e \in S}

\* The texts the log fetch can return.
LogTexts == {JoinLines(ls) : ls \in SeqsUpTo(LogLines, MaxLines)}

\* Outcome of one subprocess.run: the process could not be spawned (run
\* raises OSError), or it ran and left a return code and its stdout.  NotRun
\* stands for a command that was never issued.
NotSpawned == [status |-> "oserror", returncode |-> 0, stdout |-> <<>>]
Exited(rc, out) == [status |-> "exited", returncode |-> rc, stdout |-> out]
NotRun == [status |-> "not_run", returncode |-> 0, stdout |-> <<>>]

\* What `git show --no-patch --pretty=%P` can do during a run: fail, or
\* print the parent of the commit.
ShowRuns ==
  { NotSpawned,
    Exited(128, <<>>),
    Exited(0, <<"p", NL>>) }

\* What `git diff --numstat` can do during a run.
DiffRuns ==
  { NotSpawned,
    Exited(128, <<>>),
    Exited(0, <<"1", TAB, "2", TAB, "f", NL>>) }

\* Longest parent list text, and most lines of diff output, that
\* get_modified_lines is tried on by itself.
MaxParentsLen == 5
MaxDiffLines == 2

\* Every line of hashes and spaces up to MaxParentsLen characters that the
\* parent query can print.
ParentTexts == {t \o <<NL>> : t \in SeqsUpTo({"p", SPACE}, MaxParentsLen)}

DiffLines ==
  { <<"1", TAB, "2", TAB, "f">>,
    <<"-", TAB, "-", TAB, "f">>,
    <<"-", "1", TAB, "0", TAB, "f">>,
    <<"3", TAB, "f">> }

CounterShowRuns == {NotSpawned, Exited(128, <<>>)} \cup {Exited(0, t) : t \in ParentTexts}

CounterDiffRuns ==
  {NotSpawned, Exited(128, <<>>)}
    \cup {Exited(0, JoinLines(ls)) : ls \in SeqsUpTo(DiffLines, MaxDiffLines)}

(***************************************************************************)
(* get_modified_lines (code_churn_v2.py)                                   *)
(***************************************************************************)
\* The diff of a merge: first parent against second parent.
TwoParentDiff(commit_id) ==
  <<"git", "diff", "--numstat",
    commit_id \o <<"^", "1", ".", ".">> \o commit_id \o <<"^", "2">> >>

\* The diff of any other commit: against its parent.
SingleParentDiff(commit_id) ==
  <<"git", "diff", "--numstat", commit_id \o <<"^">> >>

NoCommand == <<>>

\* A merge test that takes any commit with two or more parents for a merge.
IsMergeCommit_TwoOrMore(parent_commits) == Len(SplitWS(parent_commits)) >= 2

\* len(parent_commits.split()) == 2
IsMergeCommit(parent_commits) == Len(SplitWS(parent_commits)) = 2

\* The diff command chosen from the output of the parent query.
DiffCommand(commit_id, show_stdout) ==
  IF IsMergeCommit(Strip(show_stdout)) THEN TwoParentDiff(commit_id)
  ELSE SingleParentDiff(commit_id)

\* One line of diff output: added + removed when it has three fields.
ModifiedOfLine(line) ==
  LET parts == Split(line, TAB)
  IN IF Len(parts) = 3 THEN safe_int(parts[1]) + safe_int(parts[2]) ELSE 0

RECURSIVE SumModified(_)
SumModified(lines) ==
  IF lines = <<>> THEN 0 ELSE ModifiedOfLine(Head(lines)) + SumModified(Tail(lines))

\* A get_modified_lines without the outer `except Exception`: checks the
\* return codes, but lets the OSError of a failed spawn escape.
GetModifiedLines_Unguarded(commit_id, show, diff) ==
  IF show.status = "oserror"
  THEN [value |-> 0, show |-> show, diff_command |-> NoCommand, diff |-> NotRun,
        raised |-> TRUE, error |-> "none"]
  ELSE IF show.returncode # 0
  THEN [value |-> 0, show |-> show, diff_command |-> NoCommand, diff |-> NotRun,
        raised |-> FALSE, error |-> "Error checking commit for merge status"]
  ELSE LET diff_command == DiffCommand(commit_id, show.stdout)
       IN IF diff.status = "oserror"
          THEN [value |-> 0, show |-> show, diff_command |-> diff_command, diff |-> diff,
                raised |-> TRUE, error |-> "none"]
          ELSE IF diff.returncode # 0
          THEN [value |-> 0, show |-> show, diff_command |-> diff_command, diff |-> diff,
                raised |-> FALSE, error |-> "Error running diff command"]
          ELSE [value |-> SumModified(SplitLines(diff.stdout)), show |-> show,
                diff_command |-> diff_command, diff |-> diff,
                raised |-> FALSE, error |-> "none"]

\* get_modified_lines(commit_id), given what the two subprocesses do.  The
\* result names the value returned, the diff command issued (NoCommand when
\* none was), whether an exception left the function, and the error logged.
GetModifiedLines(commit_id, show, diff) ==
  IF show.status = "oserror"
  THEN [value |-> 0, show |-> show, diff_command |-> NoCommand, diff |-> NotRun,
        raised |-> FALSE, error |-> "Error getting modified lines"]
  ELSE IF show.returncode # 0
  THEN [value |-> 0, show |-> show, diff_command |-> NoCommand, diff |-> NotRun,
        raised |-> FALSE, error |-> "Error checking commit for merge status"]
  ELSE LET diff_command == DiffCommand(commit_id, show.stdout)
       IN IF diff.status = "oserror"
          THEN [value |-> 0, show |-> show, diff_command |-> diff_command, diff |-> diff,
                raised |-> FALSE, error |-> "Error getting modified lines"]
          ELSE IF diff.returncode # 0
          THEN [value |-> 0, show |-> show, diff_command |-> diff_command, diff |-> diff,
                raised |-> FALSE, error |-> "Error running diff command"]
          ELSE [value |-> SumModified(SplitLines(diff.stdout)), show |-> show,
                diff_command |-> diff_command, diff |-> diff,
                raised |-> FALSE, error |-> "none"]


(***************************************************************************)
(* parse_git_log: the pieces of one loop iteration                         *)
(***************************************************************************)
\* line.startswith("'")
IsHeader(line) == StartsWith(line, QUOTE)

\* A split that fills the parts a short header lacks with empty strings.
HeaderParts_PadsMissing(line) ==
  LET parts == SplitMax(StripChars(line, {QUOTE}), COMMA, 3)
  IN IF Len(parts) < 3 THEN parts \o [i \in 1..(3 - Len(parts)) |-> <<>>] ELSE parts

\* line.strip("'").split(",", 3)
HeaderParts(line) == SplitMax(StripChars(line, {QUOTE}), COMMA, 3)

\* parts[1] or parts[2] raises IndexError when the header has fewer parts.
HeaderRaises(line) == Len(HeaderParts(line)) < 3

\* The dict built from a header line.
HeaderInfo(line) ==
  LET parts == HeaderParts(line)
  IN [commit_id |-> parts[1], date |-> parts[2], message |-> parts[3]]

\* commit_info = {} before the first header.
EmptyInfo == <<>>

\* `if commit_info:` -- a dict is true when it has a key.
HasCommit(info) == DOMAIN info # {}

\* line.split("\t") of a line that is not a header.
StatParts(line) == Split(line, TAB)

\* A well-formedness test that lets a line of two fields through.
StatWellFormed_AtLeastTwo(line) == Len(StatParts(line)) >= 2

\* len(parts) == 3
StatWellFormed(line) == Len(StatParts(line)) = 3

\* What the line adds to total_added and to total_removed.
StatAdded(line) == IF StatWellFormed(line) THEN safe_int(StatParts(line)[1]) ELSE 0
StatRemoved(line) == IF StatWellFormed(line) THEN safe_int(StatParts(line)[2]) ELSE 0

\* A header that does not reset the running totals.
TotalAfterHeader_NoReset(total) == total

\* The totals a new header starts from.
TotalAfterHeader(total) == 0

\* A record whose modified_lines is the sum of its own totals.
Finalize_SumsOwnTotals(v, info, added, removed, modified) ==
  IF v = "v2"
  THEN [commit_id |-> info.commit_id, date |-> info.date, message |-> info.message,
        added_lines |-> added, removed_lines |-> removed,
        modified_lines |-> added + removed]
  ELSE [commit_id |-> info.commit_id, date |-> info.date, message |-> info.message,
        added_lines |-> added, removed_lines |-> removed]

\* The finished record: v2 adds modified_lines, the result of
\* get_modified_lines; v1 has no such key.
Finalize(v, info, added, removed, modified) ==
  IF v = "v2"
  THEN [commit_id |-> info.commit_id, date |-> info.date, message |-> info.message,
        added_lines |-> added, removed_lines |-> removed, modified_lines |-> modified]
  ELSE [commit_id |-> info.commit_id, date |-> info.date, message |-> info.message,
        added_lines |-> added, removed_lines |-> removed]

(***************************************************************************)
(* save_to_csv                                                             *)
(***************************************************************************)
\* The header row.
CsvHeader(v) ==
  IF v = "v2"
  THEN <<"commit_id", "date", "message", "added_lines", "removed_lines", "modified_lines">>
  ELSE <<"commit_id", "date", "message", "added_lines", "removed_lines">>

\* A row with the two counts in each other's column.
CsvRow_SwapsCounts(v, commit) ==
  IF v = "v2"
  THEN <<commit.commit_id, commit.date, commit.message,
         commit.removed_lines, commit.added_lines, commit.modified_lines>>
  ELSE <<commit.commit_id, commit.date, commit.message,
         commit.removed_lines, commit.added_lines>>

\* The list handed to writer.writerow for one record.
CsvRow(v, commit) ==
  IF v = "v2"
  THEN <<commit.commit_id, commit.date, commit.message,
         commit.added_lines, commit.removed_lines, commit.modified_lines>>
  ELSE <<commit.commit_id, commit.date, commit.message,
         commit.added_lines, commit.removed_lines>>

\* An insertion that compares the dates as numbers, not as strings.
RECURSIVE InsertByDate_Numeric(_, _)
InsertByDate_Numeric(sorted, x) ==
  IF sorted = <<>> THEN <<x>>
  ELSE IF safe_int(x.date) < safe_int(Head(sorted).date) THEN <<x>> \o sorted
  ELSE <<Head(sorted)>> \o InsertByDate_Numeric(Tail(sorted), x)

\* Insertion of x behind every element whose date is not greater.
RECURSIVE InsertByDate(_, _)
InsertByDate(sorted, x) ==
  IF sorted = <<>> THEN <<x>>
  ELSE IF StrLess(x.date, Head(sorted).date) THEN <<x>> \o sorted
  ELSE <<Head(sorted)>> \o InsertByDate(Tail(sorted), x)

\* list.sort(key=lambda x: x["date"]): a stable sort, ascending by date.
RECURSIVE SortByDate(_)
SortByDate(data) ==
  IF data = <<>> THEN <<>>
  ELSE InsertByDate(SortByDate(SubSeq(data, 1, Len(data) - 1)), data[Len(data)])

\* The order save_to_csv writes the records in: v2 sorts, v1 does not.
SaveOrder(v, data) == IF v = "v2" THEN SortByDate(data) ELSE data

\* Everything a successful save writes: the header row, then the rows.
RECURSIVE CsvRows(_, _)
CsvRows(v, data) ==
  IF data = <<>> THEN <<>> ELSE <<CsvRow(v, Head(data))>> \o CsvRows(v, Tail(data))

CsvContent(v, data) == <<CsvHeader(v)>> \o CsvRows(v, data)

\* The file before the run: none exists at the report's path.
NoFile == <<"no file">>

\* How the file operations of one save of n rows can go: all succeed, open()
\* raises, or a write or the closing flush raises after `rows` rows reached
\* the file.
IoOutcomes(n) ==
  {[kind |-> "ok", rows |-> n], [kind |-> "open_error", rows |-> 0]}
    \cup {[kind |-> "write_error", rows |-> k] : k \in 0..n}

Error(msg) == [level |-> "ERROR", msg |-> msg]
Warning(msg) == [level |-> "WARNING", msg |-> msg]

(***************************************************************************)
(* State: one run of main()                                                *)
(***************************************************************************)
VARIABLES
  variant,        \* "v1": scripts/code_churn.py, "v2": code_churn_v2.py,
                  \* "git_branch": scripts/git_branch.py
  pc,             \* where main() is: "fetch", "parse", "save", "exit"
  git_log_output, \* what get_git_log returned
  commit_lines,   \* parse_git_log: git_log_output.splitlines()
  idx,            \* parse_git_log: position of the loop in commit_lines
  commit_info,    \* parse_git_log: the open commit's dict
  total_added,    \* parse_git_log
  total_removed,  \* parse_git_log
  commit_data,    \* parse_git_log's list, later main's and save_to_csv's
  gml_calls,      \* the calls of get_modified_lines in order: the commit id
                  \* passed, whether a subprocess failed, the value returned
  last_call,      \* the latest get_modified_lines call and what it did
  git_call,       \* the latest call of a helper that runs git, and what it did
  file,           \* rows of the report file, NoFile while none exists
  log,            \* records logged at WARNING or above
  caught,         \* the exception main()'s except clause caught, "none" if none
  exit_status     \* the process's exit status once main() has returned

vars ==
  <<variant, pc, git_log_output, commit_lines, idx, commit_info, total_added,
    total_removed, commit_data, gml_calls, last_call, git_call, file, log, caught,
    exit_status>>

parseVars == <<commit_lines, idx, commit_info, total_added, total_removed, commit_data>>

NoCall == [commit_id |-> <<>>, called |-> FALSE]

NoGitCall == [fn |-> "none", called |-> FALSE]

Init ==
  /\ variant \in {"v1", "v2"}
  /\ pc = "fetch"
  /\ git_log_output = <<>>
  /\ commit_lines = <<>>
  /\ idx = 1
  /\ commit_info = EmptyInfo
  /\ total_added = 0
  /\ total_removed = 0
  /\ commit_data = <<>>
  /\ gml_calls = <<>>
  /\ last_call = NoCall
  /\ git_call = NoGitCall
  /\ file = NoFile
  /\ log = <<>>
  /\ caught = "none"
  /\ exit_status = "running"

\* main() returns from its except clause: the error is logged, nothing is
\* raised further, the interpreter exits normally.
MainExcept(exc, logged) ==
  /\ log' = log \o logged \o <<Error("Script failed")>>
  /\ caught' = exc
  /\ pc' = "exit"
  /\ exit_status' = 0

\* What the failing `git log` leaves in the log before main() sees it.
FetchErrors(run) ==
  IF run.status = "oserror" THEN <<Error("Failed to fetch git log")>>
  ELSE <<Error("Error running git command"), Error("Failed to fetch git log")>>

\* A get_git_log that logs the failure and returns an empty text instead of
\* raising.
GetGitLogFails_ReturnsEmpty ==
  /\ pc = "fetch"
  /\ \E run \in {NotSpawned, Exited(128, <<>>)} : log' = log \o FetchErrors(run)
  /\ pc' = "parse"
  /\ UNCHANGED <<variant, git_call, git_log_output, parseVars, gml_calls, last_call, file, caught,
                 exit_status>>

\* get_git_log raises (git log could not be spawned, or exited non-zero) and
\* main() catches it: nothing after the fetch is called.
GetGitLogFails ==
  /\ pc = "fetch"
  /\ \E run \in {NotSpawned, Exited(128, <<>>)} :
       MainExcept("fetch", FetchErrors(run))
  /\ UNCHANGED <<variant, git_call, git_log_output, parseVars, gml_calls, last_call, file>>

\* get_git_log returns the text; parse_git_log starts on it.
GetGitLogReturns ==
  /\ pc = "fetch"
  /\ \E text \in LogTexts :
       /\ git_log_output' = text
       /\ commit_lines' = SplitLines(text)
  /\ pc' = "parse"
  /\ UNCHANGED <<variant, git_call, idx, commit_info, total_added, total_removed, commit_data,
                 gml_calls, last_call, file, log, caught, exit_status>>

\* The results get_modified_lines can give for a commit.
GmlResults(commit_id) ==
  {GetModifiedLines(commit_id, show, diff) : show \in ShowRuns, diff \in DiffRuns}

\* A subprocess that could not be spawned or exited non-zero.
RunFailed(run) ==
  run.status = "oserror" \/ (run.status = "exited" /\ run.returncode # 0)

\* Whether a subprocess step failed in the call that gave r.
StepFailed(r) == RunFailed(r.show) \/ RunFailed(r.diff)

\* Storing the open commit (lines 103-108 and 135-139): v2 calls
\* get_modified_lines and keeps what it returns, v1 does not.
StoreCommit(r) ==
  /\ commit_data' =
       Append(commit_data,
              Finalize(variant, commit_info, total_added, total_removed, r.value))
  /\ IF variant = "v2"
     THEN /\ gml_calls' = Append(gml_calls, [commit_id |-> commit_info.commit_id,
                                              failed |-> StepFailed(r),
                                              value |-> r.value])
          /\ last_call' = [commit_id |-> commit_info.commit_id, called |-> TRUE,
                           result |-> r]
     ELSE UNCHANGED <<gml_calls, last_call>>

\* The results to choose from when the open commit is stored.
StoreResults ==
  IF variant = "v2" /\ HasCommit(commit_info) THEN GmlResults(commit_info.commit_id)
  ELSE {[value |-> 0, show |-> NotRun, diff |-> NotRun, raised |-> FALSE, error |-> "none"]}

GmlLogged(r) == IF r.error = "none" THEN <<>> ELSE <<Error(r.error)>>

\* An exception leaving get_modified_lines would leave parse_git_log too and
\* reach main()'s except clause, the open commit not stored.
StoreRaises(r) ==
  /\ r.raised
  /\ MainExcept("get_modified_lines", GmlLogged(r))
  /\ gml_calls' = Append(gml_calls, [commit_id |-> commit_info.commit_id,
                                     failed |-> StepFailed(r), value |-> r.value])
  /\ last_call' = [commit_id |-> commit_info.commit_id, called |-> TRUE, result |-> r]
  /\ UNCHANGED <<idx, commit_info, total_added, total_removed, commit_data>>

\* One iteration of the loop on a header line.
ParseHeaderLine ==
  /\ pc = "parse"
  /\ idx <= Len(commit_lines)
  /\ IsHeader(commit_lines[idx])
  /\ \E r \in StoreResults :
       LET line == commit_lines[idx]
       IN IF r.raised THEN StoreRaises(r)
          ELSE /\ IF HasCommit(commit_info) THEN StoreCommit(r)
                  ELSE UNCHANGED <<commit_data, gml_calls, last_call>>
               /\ IF HeaderRaises(line)
                  THEN /\ MainExcept("IndexError", GmlLogged(r))
                       /\ UNCHANGED <<idx, commit_info, total_added, total_removed>>
                  ELSE /\ commit_info' = HeaderInfo(line)
                       /\ total_added' = TotalAfterHeader(total_added)
                       /\ total_removed' = TotalAfterHeader(total_removed)
                       /\ idx' = idx + 1
                       /\ log' = log \o GmlLogged(r)
                       /\ UNCHANGED <<pc, caught, exit_status>>
  /\ UNCHANGED <<variant, git_call, git_log_output, commit_lines, file>>

\* One iteration of the loop on any other line.
ParseStatLine ==
  /\ pc = "parse"
  /\ idx <= Len(commit_lines)
  /\ ~IsHeader(commit_lines[idx])
  /\ LET line == commit_lines[idx]
     IN /\ total_added' = total_added + StatAdded(line)
        /\ total_removed' = total_removed + StatRemoved(line)
        /\ log' = IF StatWellFormed(line) THEN log
                  ELSE Append(log, Warning("Skipping malformed line"))
  /\ idx' = idx + 1
  /\ UNCHANGED <<variant, git_call, pc, git_log_output, commit_lines, commit_info, commit_data,
                 gml_calls, last_call, file, caught, exit_status>>

\* A parse_git_log that forgets the commit still open at the end of input.
ParseReturns_DropsLast ==
  /\ pc = "parse"
  /\ idx > Len(commit_lines)
  /\ pc' = "save"
  /\ UNCHANGED <<variant, git_call, git_log_output, commit_lines, idx, commit_info, total_added,
                 total_removed, commit_data, gml_calls, last_call, file, log, caught,
                 exit_status>>

\* The loop is over: the open commit, if any, is stored and the list returned.
ParseReturns ==
  /\ pc = "parse"
  /\ idx > Len(commit_lines)
  /\ \E r \in StoreResults :
       IF r.raised THEN StoreRaises(r)
       ELSE /\ IF HasCommit(commit_info) THEN StoreCommit(r)
               ELSE UNCHANGED <<commit_data, gml_calls, last_call>>
            /\ log' = log \o GmlLogged(r)
            /\ pc' = "save"
            /\ UNCHANGED <<idx, commit_info, total_added, total_removed, caught,
                           exit_status>>
  /\ UNCHANGED <<variant, git_call, git_log_output, commit_lines, file>>

\* The file after a save that went as io.
FileAfter(v, data, old, io) ==
  IF io.kind = "open_error" THEN old
  ELSE SubSeq(CsvContent(v, data), 1, IF io.kind = "ok" THEN Len(data) + 1 ELSE io.rows)

\* save_to_csv, and main()'s return or except clause after it.
SaveToCsv ==
  /\ pc = "save"
  /\ \E io \in IoOutcomes(Len(commit_data) + 1) :
       /\ commit_data' = SaveOrder(variant, commit_data)
       /\ file' = FileAfter(variant, commit_data', file, io)
       /\ IF io.kind = "ok"
          THEN /\ pc' = "exit"
               /\ exit_status' = 0
               /\ UNCHANGED <<log, caught>>
          ELSE MainExcept("io", <<Error("Error saving data to CSV")>>)
  /\ UNCHANGED <<variant, git_call, git_log_output, commit_lines, idx, commit_info, total_added,
                 total_removed, gml_calls, last_call>>

(***************************************************************************)
(* get_modified_lines by itself, on every parent list and diff output      *)
(***************************************************************************)
InitCounter ==
  /\ variant = "v2"
  /\ pc = "counter"
  /\ git_log_output = <<>>
  /\ commit_lines = <<>>
  /\ idx = 1
  /\ commit_info = EmptyInfo
  /\ total_added = 0
  /\ total_removed = 0
  /\ commit_data = <<>>
  /\ gml_calls = <<>>
  /\ last_call = NoCall
  /\ git_call = NoGitCall
  /\ file = NoFile
  /\ log = <<>>
  /\ caught = "none"
  /\ exit_status = "running"

\* One call of get_modified_lines.
CallGetModifiedLines ==
  /\ pc = "counter"
  /\ \E commit_id \in {<<"a">>}, show \in CounterShowRuns, diff \in CounterDiffRuns :
       LET r == GetModifiedLines(commit_id, show, diff)
       IN /\ last_call' = [commit_id |-> commit_id, called |-> TRUE, result |-> r]
          /\ gml_calls' = <<[commit_id |-> commit_id, failed |-> StepFailed(r),
                            value |-> r.value]>>
          /\ log' = GmlLogged(r)
          /\ caught' = IF r.raised THEN "get_modified_lines" ELSE "none"
  /\ pc' = "counter_done"
  /\ UNCHANGED <<variant, git_call, git_log_output, parseVars, file, exit_status>>

NextCounter == CallGetModifiedLines

SpecCounter == InitCounter /\ [][NextCounter]_vars

Next ==
  \/ GetGitLogFails
  \/ GetGitLogReturns
  \/ ParseHeaderLine
  \/ ParseStatLine
  \/ ParseReturns
  \/ SaveToCsv

Spec == Init /\ [][Next]_vars
(***************************************************************************)
(* The helpers that run git and hand back its output: get_current_branch   *)
(* as parse_arguments() calls it when main() of code_churn_v2.py starts,   *)
(* run_git_command and has_branch_merged of scripts/git_branch.py          *)
(***************************************************************************)
\* Python's None, which no string equals.
None == <<"None">>

\* sub in s, for Python str: sub occurs somewhere in s as a run of characters.
IsSubstring(sub, s) ==
  \E i \in 1..(Len(s) - Len(sub) + 1) : SubSeq(s, i, i + Len(sub) - 1) = sub

MaxBranchLines == 2

BranchNames == {<<"a">>, <<"a", "b">>, <<"b">>}

\* Lines of `git branch --merged`: two columns of marker, "* " on the
\* checked-out branch, then the name.
MergedLines ==
  { <<SPACE, SPACE, "a">>,
    <<SPACE, SPACE, "a", "b">>,
    <<SPACE, SPACE, "b">>,
    <<"*", SPACE, "a", "b">>,
    <<"*", SPACE, "m">> }

\* What `git branch --merged` can do: fail to start, exit non-zero, or print
\* its lines, each ended by a newline.
MergedRuns ==
  {NotSpawned, Exited(128, <<>>)}
    \cup {Exited(0, JoinLines(ls \o <<(<<>>)>>)) : ls \in SeqsUpTo(MergedLines, MaxBranchLines)}

\* What `git rev-parse --abbrev-ref HEAD` can do.
RevParseRuns ==
  {NotSpawned, Exited(128, <<>>)} \cup {Exited(0, n \o <<NL>>) : n \in BranchNames}

\* check_output and run(check=True) raise CalledProcessError on a non-zero
\* exit, and OSError (FileNotFoundError) when the program cannot be started.
RaisesCalledProcessError(run) == run.status = "exited" /\ run.returncode # 0
RaisesOSError(run) == run.status = "oserror"

\* get_current_branch(): the only except clause is for CalledProcessError.
GetCurrentBranch(run) ==
  IF RaisesOSError(run)
  THEN [returned |-> None, raised |-> TRUE, error |-> "none"]
  ELSE IF RaisesCalledProcessError(run)
  THEN [returned |-> None, raised |-> FALSE, error |-> "Failed to get current branch"]
  ELSE [returned |-> Strip(run.stdout), raised |-> FALSE, error |-> "none"]

\* run_git_command(command): the same shape, around subprocess.run.
RunGitCommand(command, run) ==
  IF RaisesOSError(run)
  THEN [returned |-> None, raised |-> TRUE, error |-> "none"]
  ELSE IF RaisesCalledProcessError(run)
  THEN [returned |-> None, raised |-> FALSE, error |-> "Error running command"]
  ELSE [returned |-> Strip(run.stdout), raised |-> FALSE, error |-> "none"]

GitBranchMerged == <<"git", "branch", "--merged">>

\* `merged_branches and ...`: None and the empty string are false.
Truthy(text) == text # None /\ text # <<>>

\* has_branch_merged(branch): `branch in merged_branches` on the text that
\* run_git_command returned; an exception of run_git_command passes through.
HasBranchMerged(branch, run) ==
  LET merged_branches == RunGitCommand(GitBranchMerged, run)
  IN IF merged_branches.raised
     THEN [returned |-> FALSE, raised |-> TRUE, error |-> merged_branches.error]
     ELSE [returned |-> Truthy(merged_branches.returned)
                          /\ IsSubstring(branch, merged_branches.returned),
           raised |-> FALSE, error |-> merged_branches.error]

HelperLogged(r) == IF r.error = "none" THEN <<>> ELSE <<Error(r.error)>>

InitBranch ==
  /\ variant \in {"v2", "git_branch"}
  /\ pc = "helper"
  /\ git_log_output = <<>>
  /\ commit_lines = <<>>
  /\ idx = 1
  /\ commit_info = EmptyInfo
  /\ total_added = 0
  /\ total_removed = 0
  /\ commit_data = <<>>
  /\ gml_calls = <<>>
  /\ last_call = NoCall
  /\ git_call = NoGitCall
  /\ file = NoFile
  /\ log = <<>>
  /\ caught = "none"
  /\ exit_status = "running"

\* main() of code_churn_v2.py, line 202: parse_arguments() evaluates
\* get_current_branch() for the default of --branch, outside main()'s try; an
\* exception here ends the process with a traceback and status 1.
ParseArguments ==
  /\ variant = "v2"
  /\ pc = "helper"
  /\ \E run \in RevParseRuns :
       LET r == GetCurrentBranch(run)
       IN /\ git_call' = [fn |-> "get_current_branch", called |-> TRUE, arg |-> <<>>,
                          run |-> run, result |-> r]
          /\ log' = HelperLogged(r)
          /\ pc' = IF r.raised THEN "exit" ELSE "helper_done"
          /\ exit_status' = IF r.raised THEN 1 ELSE exit_status
  /\ UNCHANGED <<variant, git_log_output, parseVars, gml_calls, last_call, file, caught>>

\* One call of run_git_command.
CallRunGitCommand ==
  /\ variant = "git_branch"
  /\ pc = "helper"
  /\ \E run \in MergedRuns :
       LET r == RunGitCommand(GitBranchMerged, run)
       IN /\ git_call' = [fn |-> "run_git_command", called |-> TRUE,
                          arg |-> GitBranchMerged, run |-> run, result |-> r]
          /\ log' = HelperLogged(r)
  /\ pc' = "helper_done"
  /\ UNCHANGED <<variant, git_log_output, parseVars, gml_calls, last_call, file, caught,
                 exit_status>>

\* One call of has_branch_merged.
CallHasBranchMerged ==
  /\ variant = "git_branch"
  /\ pc = "helper"
  /\ \E branch \in BranchNames, run \in MergedRuns :
       LET r == HasBranchMerged(branch, run)
       IN /\ git_call' = [fn |-> "has_branch_merged", called |-> TRUE,
                          arg |-> branch, run |-> run, result |-> r]
          /\ log' = HelperLogged(r)
  /\ pc' = "helper_done"
  /\ UNCHANGED <<variant, git_log_output, parseVars, gml_calls, last_call, file, caught,
                 exit_status>>

NextBranch ==
  \/ ParseArguments
  \/ CallRunGitCommand
  \/ CallHasBranchMerged

SpecBranch == InitBranch /\ [][NextBranch]_vars

(***************************************************************************)
(* Vocabulary of the properties: the input text read directly, without the *)
(* operators that model the code                                           *)
(***************************************************************************)
\* Position of the n-th occurrence of d in s: 0 for n = 0, Len(s) + 1 when
\* there is no n-th occurrence.
NthPos(s, d, n) ==
  IF n = 0 THEN 0
  ELSE LET at == {i \in 1..Len(s) :
                    s[i] = d /\ Cardinality({j \in 1..i : s[j] = d}) = n}
       IN IF at = {} THEN Len(s) + 1 ELSE CHOOSE i \in at : TRUE

Occurrences(s, d) == Cardinality({i \in 1..Len(s) : s[i] = d})

\* The n-th field of s, fields being separated by d.
Field(s, d, n) == SubSeq(s, NthPos(s, d, n - 1) + 1, NthPos(s, d, n) - 1)

\* Everything after the n-th occurrence of d.
Remainder(s, d, n) == SubSeq(s, NthPos(s, d, n) + 1, Len(s))

LineIsHeader(line) == line # <<>> /\ line[1] = QUOTE

\* A header line without the quotes that wrap it.
HeaderText(line) ==
  LET t == Tail(line)
  IN IF t # <<>> /\ t[Len(t)] = QUOTE THEN SubSeq(t, 1, Len(t) - 1) ELSE t

HeaderWellFormed(line) == LineIsHeader(line) /\ Occurrences(HeaderText(line), COMMA) >= 2

HeaderPositions == {i \in 1..Len(commit_lines) : LineIsHeader(commit_lines[i])}

NumHeaders == Cardinality(HeaderPositions)

AllHeadersWellFormed == \A i \in HeaderPositions : HeaderWellFormed(commit_lines[i])

\* Position of the k-th header line.
HeaderPos(k) ==
  CHOOSE i \in HeaderPositions : Cardinality({j \in HeaderPositions : j <= i}) = k

\* Last line before the (k+1)-th header, or the last line of the input.
BlockEnd(k) == IF k < NumHeaders THEN HeaderPos(k + 1) - 1 ELSE Len(commit_lines)

ThreeFields(line) == Occurrences(line, TAB) = 2

\* A count field is numeric when int() accepts it.
FieldNumeric(line, n) == IntAccepts(Field(line, TAB, n))

\* What a line counts for in field n (1: added, 2: removed).
Counted(line, n) ==
  IF ThreeFields(line) /\ FieldNumeric(line, n) THEN IntOf(Field(line, TAB, n)) ELSE 0

\* Sum of field n over the lines lo..hi of the input.
RECURSIVE BlockSum(_, _, _)
BlockSum(lo, hi, n) ==
  IF lo > hi THEN 0 ELSE Counted(commit_lines[lo], n) + BlockSum(lo + 1, hi, n)

\* The branch names a `git branch --merged` output lists: each line without
\* its two marker columns.
ListedBranches(text) ==
  {SubSeq(Field(text, NL, k), 3, Len(Field(text, NL, k))) :
     k \in 1..(Occurrences(text, NL) + 1)} \ {<<>>}

\* Number of header lines above line i.
HeadersBefore(i) == Cardinality({j \in HeaderPositions : j < i})

\* Whether commit_data is still in the order parse_git_log built it in.
InParseOrder == pc \in {"parse", "save"} \/ caught = "IndexError"

Logged(msg) == \E i \in 1..Len(log) : log[i].msg = msg

\* Number of whitespace-separated entries of a parent list.
NumParents(text) ==
  Cardinality({i \in 1..Len(text) :
                 /\ text[i] \notin {SPACE, TAB, NL}
                 /\ (i = 1 \/ text[i - 1] \in {SPACE, TAB, NL})})

RECURSIVE ExpectedModified(_)
ExpectedModified(lines) ==
  IF lines = <<>> THEN 0
  ELSE Counted(Head(lines), 1) + Counted(Head(lines), 2) + ExpectedModified(Tail(lines))

RanWell(run) == run.status = "exited" /\ run.returncode = 0

\* A row of the v2 report holding exactly the fields of rec.
RowIs(row, rec) ==
  row = <<rec.commit_id, rec.date, rec.message,
          rec.added_lines, rec.removed_lines, rec.modified_lines>>

DateSorted(rows) ==
  \A i \in 1..Len(rows) : \A j \in 1..Len(rows) :
    i < j => ~StrLess(rows[j][2], rows[i][2])

IsPermutationOf(rows, data) ==
  /\ Len(rows) = Len(data)
  /\ \E p \in Permutations(1..Len(data)) :
       \A k \in 1..Len(data) : RowIs(rows[k], data[p[k]])

DataRows(f) == IF f = <<>> THEN <<>> ELSE Tail(f)

\* The column names and the fields of a record, in the order of the report.
Columns(v) ==
  <<"commit_id", "date", "message", "added_lines", "removed_lines">>
    \o (IF v = "v2" THEN <<"modified_lines">> ELSE <<>>)

RowOf(v, rec) ==
  <<rec.commit_id, rec.date, rec.message, rec.added_lines, rec.removed_lines>>
    \o (IF v = "v2" THEN <<rec.modified_lines>> ELSE <<>>)

(***************************************************************************)
(* C1: when every header line of the text is well formed, parse_git_log    *)
(* returns (no IndexError ends the run) and its list holds exactly one     *)
(* record per header line, the k-th record carrying the id and date of the *)
(* k-th header line; so the empty text gives no record and lines before    *)
(* the first header give none.                                             *)
(***************************************************************************)
C1_OneRecordPerHeader ==
  AllHeadersWellFormed =>
    /\ caught # "IndexError"
    /\ pc = "save" =>
         /\ Len(commit_data) = NumHeaders
         /\ \A k \in 1..NumHeaders :
              /\ commit_data[k].commit_id = Field(HeaderText(commit_lines[HeaderPos(k)]), COMMA, 1)
              /\ commit_data[k].date = Field(HeaderText(commit_lines[HeaderPos(k)]), COMMA, 2)

\* Two headers after a leading stat line: two records, none for the stat line.
C1_Witness ==
  /\ pc = "save"
  /\ Len(commit_lines) = 3
  /\ ~LineIsHeader(commit_lines[1])
  /\ ThreeFields(commit_lines[1])
  /\ NumHeaders = 2
  /\ Len(commit_data) = 2
  /\ commit_data[1].commit_id # commit_data[2].commit_id

(***************************************************************************)
(* C2: the k-th record's added_lines (removed_lines) is the sum of the     *)
(* first (second) field over the three-field lines with a numeric field    *)
(* that lie after the k-th header and before the next header or the end of *)
(* the input: nothing is counted for another record, nothing leaks.        *)
(***************************************************************************)
C2_TotalsAreBlockSums ==
  pc \in {"parse", "save"} =>
    \A k \in 1..Len(commit_data) :
      /\ commit_data[k].added_lines = BlockSum(HeaderPos(k) + 1, BlockEnd(k), 1)
      /\ commit_data[k].removed_lines = BlockSum(HeaderPos(k) + 1, BlockEnd(k), 2)

\* A header with one numeric stat line, then a header with none.
C2_Witness ==
  /\ pc = "save"
  /\ Len(commit_lines) = 3
  /\ Len(commit_data) = 2
  /\ HeaderPositions = {1, 3}
  /\ commit_data[1].added_lines = 1
  /\ commit_data[1].removed_lines = 2
  /\ commit_data[2].added_lines = 0
  /\ commit_data[2].removed_lines = 0

(***************************************************************************)
(* C3: a loop iteration on a line that is no header never raises and moves *)
(* on to the next line; when the line has not exactly three tab-separated  *)
(* fields both running totals stay as they are, and with three fields a    *)
(* total stays as it is when its count field is not numeric (so both stay  *)
(* for a line such as "abc\tdef\tfile.txt").                               *)
(***************************************************************************)
C3_MalformedLineIsNoOp ==
  [][(pc = "parse" /\ idx <= Len(commit_lines) /\ ~LineIsHeader(commit_lines[idx])) =>
       LET line == commit_lines[idx]
       IN /\ pc' = "parse"
          /\ idx' = idx + 1
          /\ caught' = "none"
          /\ commit_data' = commit_data
          /\ ~ThreeFields(line) =>
               total_added' = total_added /\ total_removed' = total_removed
          /\ (ThreeFields(line) /\ ~FieldNumeric(line, 1)) => total_added' = total_added
          /\ (ThreeFields(line) /\ ~FieldNumeric(line, 2)) => total_removed' = total_removed
    ]_vars

\* A numeric line was counted, then a three-field line with non-numeric
\* counts was passed over.
C3_Witness ==
  /\ pc = "parse"
  /\ idx = 4
  /\ Len(commit_lines) = 3
  /\ LineIsHeader(commit_lines[1])
  /\ ThreeFields(commit_lines[2]) /\ FieldNumeric(commit_lines[2], 1)
  /\ ThreeFields(commit_lines[3])
  /\ ~FieldNumeric(commit_lines[3], 1) /\ ~FieldNumeric(commit_lines[3], 2)
  /\ total_added = 1
  /\ total_removed = 2

(***************************************************************************)
(* C4: the header split is capped at the first two commas: commit_id is    *)
(* the text before the first comma, date the text between the first and    *)
(* the second, message all the rest of the header, further commas          *)
(* included.                                                               *)
(***************************************************************************)
C4_MessageIsRemainder ==
  pc = "save" =>
    \A k \in 1..Len(commit_data) :
      LET header == HeaderText(commit_lines[HeaderPos(k)])
      IN /\ commit_data[k].commit_id = Field(header, COMMA, 1)
         /\ commit_data[k].date = Field(header, COMMA, 2)
         /\ commit_data[k].message = Remainder(header, COMMA, 2)

(***************************************************************************)
(* C5: once the parent query has succeeded, get_modified_lines issues the  *)
(* two-parent diff exactly when the parent list has two entries and the    *)
(* single-parent diff for every other count; when the diff succeeds too,   *)
(* the value returned is the sum of added + removed over the three-field   *)
(* lines of the diff output, a non-numeric field counting 0.  No diff is   *)
(* issued when the parent query fails.                                     *)
(***************************************************************************)
C5_DiffFollowsParentCount ==
  last_call.called =>
    LET r == last_call.result
        id == last_call.commit_id
    IN /\ ~RanWell(r.show) => r.diff_command = <<>>
       /\ RanWell(r.show) =>
            r.diff_command =
              IF NumParents(r.show.stdout) = 2
              THEN <<"git", "diff", "--numstat",
                     id \o <<"^", "1", ".", ".">> \o id \o <<"^", "2">> >>
              ELSE <<"git", "diff", "--numstat", id \o <<"^">> >>
       /\ (RanWell(r.show) /\ RanWell(r.diff)) =>
            r.value = ExpectedModified(SplitLines(r.diff.stdout))

\* A merge: two parents, the two-parent diff, and a diff of a text file and a
\* binary file summed to 3.
C5_Witness ==
  /\ pc = "counter_done"
  /\ last_call.called
  /\ RanWell(last_call.result.show)
  /\ NumParents(last_call.result.show.stdout) = 2
  /\ Len(last_call.result.diff_command[4]) = 8
  /\ RanWell(last_call.result.diff)
  /\ Len(SplitLines(last_call.result.diff.stdout)) = 2
  /\ last_call.result.value = 3

(***************************************************************************)
(* C6: a failed subprocess step of get_modified_lines (a non-zero exit or  *)
(* a failed spawn, of the parent query or of the diff) makes it return 0   *)
(* and raise nothing: the commit's record is emitted with modified_lines   *)
(* 0, and parse_git_log returns one record per header all the same.        *)
(***************************************************************************)
C6_CounterFailureIsContained ==
  /\ caught # "get_modified_lines"
  /\ (last_call.called /\ (RunFailed(last_call.result.show) \/ RunFailed(last_call.result.diff)))
       => (last_call.result.value = 0 /\ ~last_call.result.raised)
  /\ pc \in {"parse", "save"} =>
       \A k \in 1..Len(gml_calls) :
         gml_calls[k].failed =>
           /\ k <= Len(commit_data)
           /\ commit_data[k].commit_id = gml_calls[k].commit_id
           /\ commit_data[k].modified_lines = 0
  /\ (pc = "save" /\ variant = "v2") =>
       (Len(commit_data) = NumHeaders /\ Len(gml_calls) = NumHeaders)

\* The first commit's counter fails, the second one's works, the third
\* one's cannot spawn its diff: three records all the same.
C6_Witness ==
  /\ variant = "v2"
  /\ pc = "save"
  /\ Len(commit_data) = 3
  /\ gml_calls[1].failed
  /\ commit_data[1].modified_lines = 0
  /\ ~gml_calls[2].failed
  /\ commit_data[2].modified_lines = 3
  /\ last_call.result.diff.status = "oserror"
  /\ commit_data[3].modified_lines = 0

(***************************************************************************)
(* C7: once the log fetch has failed, the run is over: main() has caught   *)
(* the exception get_git_log raised, parse_git_log and get_modified_lines  *)
(* were not called and no report file was created or truncated.            *)
(***************************************************************************)
C7_FetchFailureAborts ==
  Logged("Failed to fetch git log") =>
    /\ pc = "exit"
    /\ caught = "fetch"
    /\ Logged("Script failed")
    /\ git_log_output = <<>>
    /\ commit_lines = <<>>
    /\ idx = 1
    /\ commit_data = <<>>
    /\ gml_calls = <<>>
    /\ ~last_call.called
    /\ file = NoFile

\* git log exited non-zero and the run ended in main()'s except clause.
C7_Witness ==
  /\ pc = "exit"
  /\ caught = "fetch"
  /\ Logged("Error running git command")
  /\ Logged("Script failed")
  /\ file = NoFile

(***************************************************************************)
(* C8: an I/O failure while the report is written is logged as an error,   *)
(* re-raised by save_to_csv, and the run ends with a failure signal, an    *)
(* exit status other than that of a successful run.                        *)
(***************************************************************************)
C8_WriteFailureExitsNonZero ==
  (pc = "exit" /\ caught = "io") =>
    /\ Logged("Error saving data to CSV")
    /\ exit_status # 0

C10_HeaderThenOneRowPerRecord ==
  (pc = "exit" /\ caught = "none") =>
    /\ Len(file) = NumHeaders + 1
    /\ Len(file) = Len(commit_data) + 1
    /\ file[1] = Columns(variant)
    /\ \A k \in 1..Len(commit_data) : file[k + 1] = RowOf(variant, commit_data[k])
    /\ git_log_output = <<>> => file = <<Columns(variant)>>

\* Two records with different counts, written by the v1 script.
C10_Witness ==
  /\ variant = "v1"
  /\ pc = "exit"
  /\ caught = "none"
  /\ Len(file) = 3
  /\ file[2][4] = 1
  /\ file[2][5] = 2
  /\ file[3][4] = 0
  /\ file[3][5] = 0

(***************************************************************************)
(* C11: no count is ever negative: in every record added_lines and         *)
(* removed_lines are at least 0, and so is whatever get_modified_lines     *)
(* returned, also when a count field of a three-field line is a signed     *)
(* numeral such as "-3".                                                   *)
(***************************************************************************)
C11_CountsNonNegative ==
  /\ \A k \in 1..Len(commit_data) :
       /\ commit_data[k].added_lines >= 0
       /\ commit_data[k].removed_lines >= 0
       /\ variant = "v2" => commit_data[k].modified_lines >= 0
  /\ last_call.called => last_call.result.value >= 0

(***************************************************************************)
(* C12: a subprocess that exits non-zero or cannot be started is contained *)
(* by the helper that ran it: get_current_branch and run_git_command       *)
(* return None, no exception leaves them, and the run is not aborted.      *)
(***************************************************************************)
C12_HelperFailureIsContained ==
  (/\ git_call.called
   /\ git_call.fn \in {"get_current_branch", "run_git_command"}
   /\ RunFailed(git_call.run)) =>
    /\ ~git_call.result.raised
    /\ git_call.result.returned = None
    /\ exit_status = "running"

(***************************************************************************)
(* C13: in v2 every record's modified_lines is what get_modified_lines     *)
(* returned when called with that record's commit_id.  The call is made    *)
(* once per record, when the record is stored: not before the next header  *)
(* (or the end of the input) is reached, and before that header's fields   *)
(* are read; so the calls are in header order, and there is no call        *)
(* without a record.  v1 never calls it.                                   *)
(***************************************************************************)
C13_OneCallPerRecordAtFinalization ==
  /\ variant = "v1" => gml_calls = <<>>
  /\ (variant = "v2" /\ pc \in {"parse", "save", "exit"}) =>
       /\ Len(gml_calls) = Len(commit_data)
       /\ pc = "parse" =>
            Len(gml_calls) = IF HeadersBefore(idx) = 0 THEN 0 ELSE HeadersBefore(idx) - 1
       /\ pc = "save" => Len(gml_calls) = NumHeaders
       /\ InParseOrder =>
            \A k \in 1..Len(gml_calls) :
              /\ gml_calls[k].commit_id =
                   Field(HeaderText(commit_lines[HeaderPos(k)]), COMMA, 1)
              /\ commit_data[k].commit_id = gml_calls[k].commit_id
              /\ commit_data[k].modified_lines = gml_calls[k].value
       /\ \A k \in 1..Len(commit_data) :
            \E j \in 1..Len(gml_calls) :
              /\ gml_calls[j].commit_id = commit_data[k].commit_id
              /\ gml_calls[j].value = commit_data[k].modified_lines

\* Two commits, each with its own result: the first call failed and gave 0,
\* the second gave 3 for a commit whose own totals are 0.
C13_Witness ==
  /\ variant = "v2"
  /\ pc = "save"
  /\ Len(commit_data) = 2
  /\ gml_calls[1].commit_id = <<"a">> /\ gml_calls[1].value = 0
  /\ gml_calls[2].commit_id = <<"b">> /\ gml_calls[2].value = 3
  /\ commit_data[1].added_lines = 1 /\ commit_data[1].modified_lines = 0
  /\ commit_data[2].added_lines = 0 /\ commit_data[2].modified_lines = 3

(***************************************************************************)
(* C14: a header line with fewer than three comma-separated parts never    *)
(* becomes a record.  Every record stored comes from a header with three   *)
(* parts; the parse stops with an error at the first short header, and     *)
(* then nothing is returned to main(), nothing is saved, and the failure   *)
(* is logged.                                                              *)
(***************************************************************************)
C14_ShortHeaderGivesNoRecord ==
  /\ InParseOrder =>
       /\ Len(commit_data) <= NumHeaders
       /\ \A k \in 1..Len(commit_data) :
            /\ HeaderWellFormed(commit_lines[HeaderPos(k)])
            /\ commit_data[k].commit_id =
                 Field(HeaderText(commit_lines[HeaderPos(k)]), COMMA, 1)
  /\ ~AllHeadersWellFormed =>
       /\ pc # "save"
       /\ file = NoFile
       /\ pc = "exit" =>
            /\ caught = "IndexError"
            /\ Logged("Script failed")
            /\ ~HeaderWellFormed(commit_lines[idx])
            /\ \A i \in HeaderPositions : i < idx => HeaderWellFormed(commit_lines[i])
  /\ caught = "IndexError" => ~AllHeadersWellFormed

\* A good header, then a header of two parts: the parse stopped there, the
\* record of the first commit was lost with it, and no file was written.
C14_Witness ==
  /\ pc = "exit"
  /\ caught = "IndexError"
  /\ Len(commit_lines) = 3
  /\ idx = 2
  /\ HeaderWellFormed(commit_lines[1])
  /\ LineIsHeader(commit_lines[2])
  /\ Occurrences(HeaderText(commit_lines[2]), COMMA) = 1
  /\ Len(commit_data) = 1
  /\ file = NoFile

(***************************************************************************)
(* C15: has_branch_merged(branch) is True exactly when the merged-branch   *)
(* query ran well and branch is one of the names it listed; it is False    *)
(* when the query exits non-zero, and a branch whose name is only a part   *)
(* of a listed name is not reported as merged.                             *)
(***************************************************************************)
C15_MergedIffListed ==
  (/\ git_call.called
   /\ git_call.fn = "has_branch_merged"
   /\ git_call.run.status = "exited") =>
    /\ ~git_call.result.raised
    /\ git_call.result.returned <=>
         (RanWell(git_call.run) /\ git_call.arg \in ListedBranches(git_call.run.stdout))

====
